---- MODULE Spec2Model ----
(***************************************************************************)
(* Model of src/src/openalea/core/node.py (OpenAlea.Core): the Node port   *)
(* tables, the lazy evaluation of Node.eval and the notifications sent to  *)
(* the listeners (specification Spec), and NodeFactory.instantiate with    *)
(* the module kept by get_node_module, called from two threads             *)
(* (specification FactorySpec).                                            *)
(* AccessSpec and CallerSpec are the node in the hands of its caller alone, *)
(* with a function that does not call back: AccessSpec has the six port    *)
(* accessors called with any key, CallerSpec has the caption and the data. *)
(*                                                                         *)
(* Node.eval hands control to the node's function at line 228.  The        *)
(* function is foreign code: it returns any result, raises, or calls       *)
(* set_input / set_input_state of its own node first.  eval is therefore   *)
(* three actions: eval_call up to the call, then eval_return or eval_raise.*)
(*                                                                         *)
(* Python values are modelled by their repr: the string "None" is None,    *)
(* "0" is the integer 0 (falsy), "1" the integer 1 (truthy).  A dictionary *)
(* key is a record: [int |-> i] for an integer key, [str |-> s] for a      *)
(* string key, so that the string "0" and the integer 0 are different keys *)
(* as they are in a Python dict.                                           *)
(***************************************************************************)
EXTENDS Integers, Sequences, FiniteSets, TLC

\* ------------------------------------------------------------------ bounds
\* Largest number of ports (inputs plus outputs) a node is given.
MaxPorts == 2
\* Largest number of calls the callable makes back into its own node during
\* one invocation.
MaxReent == 1

\* Largest number of instantiate calls nested in one another in one thread.
MaxDepth == 1
\* Largest number of calls of imp.find_module.
MaxFinds == 2

\* ------------------------------------------------------------ value domains
None == "None"
\* Values the callable returns and set_output stores.
Values == {None, "0", "1"}
\* Values the inputs are given (they are only compared with one another).
InputValues == {None, "1"}
\* Input states (node.py:79); None until set.
States == {None, "hidden"}
\* The decimal repr of a small integer, as str() gives it.
Digits == <<"0", "1", "2", "3", "4", "5", "6", "7", "8", "9">>

IntKey(i) == [int |-> i]
StrKey(s) == [str |-> s]
IsInt(k) == DOMAIN k = {"int"}

\* Names handed to add_input / add_output, before coercion: two strings and
\* an integer whose str() is one of them.
RawNames == {StrKey("x"), StrKey("0"), IntKey(0)}
\* Interface objects are opaque to the node.
Interfaces == {"IInt"}

\* Captions given to set_caption, and the keys and values given to set_data
Captions == {"c"}
DataKeys == {"k"}
DataValues == {"1"}
\* Keys handed to the accessors: every index and name in use, and some that
\* are not declared.
Keys == {IntKey(i) : i \in 0..(MaxPorts - 1)} \cup {StrKey("x"), StrKey("0")}

\* What a callable can give back: nothing (None), a bare value, or a
\* tuple/list of values (longer than the output table at the longest).
RECURSIVE SeqsUpTo(_, _)
SeqsUpTo(S, n) ==
    IF n = 0 THEN {<<>>}
    ELSE LET shorter == SeqsUpTo(S, n - 1)
         IN  shorter \cup {Append(s, v) : s \in {t \in shorter : Len(t) = n - 1}, v \in S}

Results == {[kind |-> "scalar", v |-> x, items |-> <<>>] : x \in Values}
           \cup {[kind |-> "seq", v |-> None, items |-> s] : s \in SeqsUpTo(Values, MaxPorts + 1)}

VARIABLES
    \* Node fields (node.py:69-98)
    inputs, outputs, input_desc, output_desc,
    map_index_in, map_index_out, input_states, modified, func,
    internal_data,
    \* position of the running eval: "idle" or "calling" (inside self.__call__)
    pc,
    \* number of calls the callable of the last (or running) eval has made
    \* back into the node
    reent,
    \* observation of the last top-level call: its name, its result, and the
    \* events it sent to the listeners
    op, ret, events,
    \* callable invocations, and eval calls, since the last call of set_input
    \* or set_input_state (by the caller or by the callable)
    calls, evals,
    \* an input value or state has changed since the last eval that completed
    changed,
    \* an input value or state has changed since eval last cleared modified
    touched,
    \* neither set_input nor set_input_state has run on the node since it was
    \* constructed
    fresh

VARIABLES
    \* NodeFactory fields (node.py:287-294, 373-384)
    factory,
    \* what the factory's module holds under nodeclass_name
    impl,
    \* the factory's fields as NodeFactory.__init__ set them
    created,
    \* per thread: position in instantiate, its call_stack argument, number of
    \* instantiate calls nested in the outermost one, and what the outermost
    \* call has given back
    fpc, call_stack, depth, result,
    \* calls of imp.find_module and of imp.load_module so far
    finds, loads,
    \* a load_module call has succeeded
    resolved,
    \* per thread: resolved, when the thread's outermost call was entered
    warm

node_vars == <<inputs, outputs, input_desc, output_desc, map_index_in,
               map_index_out, input_states, modified, func, internal_data>>
hist_vars == <<pc, reent, op, ret, events, calls, evals, changed, touched,
               fresh>>
fact_vars == <<factory, impl, created, fpc, call_stack, depth, result, finds, loads,
               resolved, warm>>
vars == <<node_vars, hist_vars, fact_vars>>

\* ------------------------------------------------------------------ helpers
\* str(name), node.py:137 and node.py:148
Str(name) == IF IsInt(name) THEN Digits[name.int + 1] ELSE name.str

\* {} : the dict with no key
EmptyDict == [k \in {} |-> 0]

\* d[k] = v on a dict
DictSet(d, k, v) == [x \in (DOMAIN d) \cup {k} |-> IF x = k THEN v ELSE d[x]]

\* Python truth value of a callable's result: None, 0 and the empty
\* tuple/list are false.
Truthy(r) ==
    IF r.kind = "scalar" THEN r.v \notin {None, "0"}
    ELSE Len(r.items) > 0

Min(a, b) == IF a < b THEN a ELSE b

\* 0-based list element
At(list, index) == list[index + 1]
SetAt(list, index, v) == [list EXCEPT ![index + 1] = v]

\* str(self.__class__.__name__), node.py:97
ClassName == "Node"

\* A constructor that leaves the node not modified
NodeInit_clean ==
    /\ inputs = <<>>
    /\ outputs = <<>>
    /\ input_desc = <<>>
    /\ output_desc = <<>>
    /\ map_index_in = EmptyDict
    /\ map_index_out = EmptyDict
    /\ input_states = <<>>
    /\ modified = FALSE
    /\ func \in {None, "f"}
    /\ internal_data = DictSet(EmptyDict, "caption", ClassName)
    /\ pc = "idle"
    /\ reent = 0
    /\ op = "init"
    /\ ret = None
    /\ events = <<>>
    /\ calls = 0
    /\ evals = 0
    /\ changed = FALSE
    /\ touched = FALSE
    /\ fresh = TRUE

\* Node.__init__ with inputs=(), outputs=(): ports are then declared with
\* add_input / add_output, as the constructor itself does for its arguments.
NodeInit ==
    /\ inputs = <<>>
    /\ outputs = <<>>
    /\ input_desc = <<>>
    /\ output_desc = <<>>
    /\ map_index_in = EmptyDict
    /\ map_index_out = EmptyDict
    /\ input_states = <<>>
    /\ modified = TRUE
    /\ func \in {None, "f"}
    /\ internal_data = DictSet(EmptyDict, "caption", ClassName)
    /\ pc = "idle"
    /\ reent = 0
    /\ op = "init"
    /\ ret = None
    /\ events = <<>>
    /\ calls = 0
    /\ evals = 0
    /\ changed = FALSE
    /\ touched = FALSE
    /\ fresh = TRUE

\* A top-level call returns: what the caller observes of it.
Returned(name, res, evs) ==
    /\ op' = name
    /\ ret' = res
    /\ events' = evs

\* Node.add_input
add_input(name, interface, value) ==
    /\ pc = "idle"
    /\ Len(inputs) + Len(outputs) < MaxPorts
    /\ LET nm == Str(name)
           index == Len(inputs)
       IN  /\ inputs' = Append(inputs, value)
           /\ input_desc' = Append(input_desc, <<nm, interface>>)
           /\ input_states' = Append(input_states, None)
           /\ map_index_in' = DictSet(DictSet(map_index_in, StrKey(nm), index),
                                      IntKey(index), index)
    /\ Returned("add_input", None, <<>>)
    /\ UNCHANGED <<outputs, output_desc, map_index_out, modified, func,
                   internal_data>>
    /\ UNCHANGED <<pc, reent, calls, evals, changed, touched, fresh>>
    /\ UNCHANGED fact_vars

\* add_output that takes the index after the value has been appended
add_output_after(name, interface) ==
    /\ pc = "idle"
    /\ Len(inputs) + Len(outputs) < MaxPorts
    /\ LET nm == Str(name)
           index == Len(outputs) + 1
       IN  /\ outputs' = Append(outputs, None)
           /\ output_desc' = Append(output_desc, <<nm, interface>>)
           /\ map_index_out' = DictSet(DictSet(map_index_out, StrKey(nm), index),
                                       IntKey(index), index)
    /\ Returned("add_output", None, <<>>)
    /\ UNCHANGED <<inputs, input_desc, input_states, map_index_in, modified, func,
                   internal_data>>
    /\ UNCHANGED <<pc, reent, calls, evals, changed, touched, fresh>>
    /\ UNCHANGED fact_vars

\* Node.add_output
add_output(name, interface) ==
    /\ pc = "idle"
    /\ Len(inputs) + Len(outputs) < MaxPorts
    /\ LET nm == Str(name)
           index == Len(outputs)
       IN  /\ outputs' = Append(outputs, None)
           /\ output_desc' = Append(output_desc, <<nm, interface>>)
           /\ map_index_out' = DictSet(DictSet(map_index_out, StrKey(nm), index),
                                       IntKey(index), index)
    /\ Returned("add_output", None, <<>>)
    /\ UNCHANGED <<inputs, input_desc, input_states, map_index_in, modified, func,
                   internal_data>>
    /\ UNCHANGED <<pc, reent, calls, evals, changed, touched, fresh>>
    /\ UNCHANGED fact_vars

\* A call made by the caller (pc = "idle") starts a fresh observation; a call
\* made by the running callable adds its events to those of the running eval.
Nested == pc = "calling"
CanCall == pc = "idle" \/ (pc = "calling" /\ reent < MaxReent)
SentSoFar == IF Nested THEN events ELSE <<>>

\* The events of notify_listeners
InputModified(index) == [ev |-> "input_modified", index |-> index]
StatusModified(m) == [ev |-> "status_modified", modified |-> m]

\* unvalidate_input that forgets to mark the node
unvalidate_input_clean(index_key) ==
    /\ modified' = modified
    /\ LET index == map_index_in[IntKey(index_key)]
       IN  events' = Append(SentSoFar, InputModified(index))

\* Node.unvalidate_input, called with an index
unvalidate_input(index_key) ==
    /\ modified' = TRUE
    /\ LET index == map_index_in[IntKey(index_key)]
       IN  events' = Append(SentSoFar, InputModified(index))

\* Node.get_input / Node.get_output / Node.get_input_state
get_input(index_key) == At(inputs, map_index_in[index_key])
get_output(index_key) == At(outputs, map_index_out[index_key])
get_input_state(index_key) == At(input_states, map_index_in[index_key])

\* The bookkeeping of a call of set_input or set_input_state.
SetterCalled(name, hasChanged) ==
    /\ calls' = 0
    /\ evals' = 0
    /\ changed' = (changed \/ hasChanged)
    /\ touched' = (touched \/ hasChanged)
    /\ fresh' = FALSE
    /\ pc' = pc
    /\ IF Nested
       THEN /\ reent' = reent + 1
            /\ UNCHANGED <<op, ret>>
       ELSE /\ reent' = reent
            /\ op' = name
            /\ ret' = None

\* A failing lookup that comes after the node has been marked, as in
\* unvalidate_input
KeyErrorRaised_marked(name) ==
    /\ pc = "idle"
    /\ Returned(name, "KeyError", <<>>)
    /\ modified' = TRUE
    /\ UNCHANGED <<inputs, outputs, input_desc, output_desc, map_index_in,
                   map_index_out, input_states, func, internal_data>>
    /\ UNCHANGED <<pc, reent, calls, evals, changed, touched, fresh>>
    /\ UNCHANGED fact_vars

\* A key that is not in the dict: the lookup raises KeyError and the call
\* has done nothing.
KeyErrorRaised(name) ==
    /\ pc = "idle"
    /\ Returned(name, "KeyError", <<>>)
    /\ UNCHANGED node_vars
    /\ UNCHANGED <<pc, reent, calls, evals, changed, touched, fresh>>
    /\ UNCHANGED fact_vars

\* set_input without the comparison of line 169
set_input_always(index_key, val) ==
    /\ CanCall
    /\ index_key \in DOMAIN map_index_in
    /\ LET index == map_index_in[index_key]
       IN  /\ inputs' = SetAt(inputs, index, val)
           /\ unvalidate_input(index)
           /\ SetterCalled("set_input", At(inputs, index) # val)
    /\ UNCHANGED <<outputs, input_desc, output_desc, map_index_in,
                   map_index_out, input_states, func, internal_data>>
    /\ UNCHANGED fact_vars

\* Node.set_input
set_input(index_key, val) ==
    /\ CanCall
    /\ index_key \in DOMAIN map_index_in
    /\ LET index == map_index_in[index_key]
       IN  IF At(inputs, index) # val
           THEN /\ inputs' = SetAt(inputs, index, val)
                /\ unvalidate_input(index)
                /\ SetterCalled("set_input", TRUE)
           ELSE /\ UNCHANGED <<inputs, modified>>
                /\ events' = SentSoFar
                /\ SetterCalled("set_input", FALSE)
    /\ UNCHANGED <<outputs, input_desc, output_desc, map_index_in,
                   map_index_out, input_states, func, internal_data>>
    /\ UNCHANGED fact_vars

set_input_KeyError(index_key) ==
    /\ index_key \notin DOMAIN map_index_in
    /\ KeyErrorRaised("set_input")

\* Node.set_output
set_output(index_key, val) ==
    /\ pc = "idle"
    /\ index_key \in DOMAIN map_index_out
    /\ LET index == map_index_out[index_key]
       IN  outputs' = SetAt(outputs, index, val)
    /\ Returned("set_output", None, <<>>)
    /\ UNCHANGED <<inputs, input_desc, output_desc, map_index_in,
                   map_index_out, input_states, modified, func,
                   internal_data>>
    /\ UNCHANGED <<pc, reent, calls, evals, changed, touched, fresh>>
    /\ UNCHANGED fact_vars

set_output_KeyError(index_key) ==
    /\ index_key \notin DOMAIN map_index_out
    /\ KeyErrorRaised("set_output")

\* set_input_state that marks the node only when the state differs
set_input_state_ifchanged(index_key, state) ==
    /\ CanCall
    /\ index_key \in DOMAIN map_index_in
    /\ LET index == map_index_in[index_key]
       IN  IF At(input_states, index) # state
           THEN /\ input_states' = SetAt(input_states, index, state)
                /\ unvalidate_input(index)
                /\ SetterCalled("set_input_state", TRUE)
           ELSE /\ UNCHANGED <<input_states, modified>>
                /\ events' = SentSoFar
                /\ SetterCalled("set_input_state", FALSE)
    /\ UNCHANGED <<inputs, outputs, input_desc, output_desc, map_index_in,
                   map_index_out, func, internal_data>>
    /\ UNCHANGED fact_vars

\* Node.set_input_state
set_input_state(index_key, state) ==
    /\ CanCall
    /\ index_key \in DOMAIN map_index_in
    /\ LET index == map_index_in[index_key]
       IN  /\ input_states' = SetAt(input_states, index, state)
           /\ unvalidate_input(index)
           /\ SetterCalled("set_input_state", At(input_states, index) # state)
    /\ UNCHANGED <<inputs, outputs, input_desc, output_desc, map_index_in,
                   map_index_out, func, internal_data>>
    /\ UNCHANGED fact_vars

set_input_state_KeyError(index_key) ==
    /\ index_key \notin DOMAIN map_index_in
    /\ KeyErrorRaised("set_input_state")

\* get_input / get_output / get_input_state with a key that is not in the
\* dict: the lookup of lines 161, 176 and 187 raises KeyError
get_input_KeyError(index_key) ==
    /\ index_key \notin DOMAIN map_index_in
    /\ KeyErrorRaised("get_input")

get_output_KeyError(index_key) ==
    /\ index_key \notin DOMAIN map_index_out
    /\ KeyErrorRaised("get_output")

get_input_state_KeyError(index_key) ==
    /\ index_key \notin DOMAIN map_index_in
    /\ KeyErrorRaised("get_input_state")

\* The events of set_caption and set_data
CaptionModified == [ev |-> "caption_modified"]
DataModified == [ev |-> "data_modified"]

\* Node.set_caption
set_caption(newcaption) ==
    /\ pc = "idle"
    /\ internal_data' = DictSet(internal_data, "caption", newcaption)
    /\ Returned("set_caption", None, <<CaptionModified>>)
    /\ UNCHANGED <<inputs, outputs, input_desc, output_desc, map_index_in,
                   map_index_out, input_states, modified, func>>
    /\ UNCHANGED <<pc, reent, calls, evals, changed, touched, fresh>>
    /\ UNCHANGED fact_vars

\* Node.set_data
set_data(key, value) ==
    /\ pc = "idle"
    /\ internal_data' = DictSet(internal_data, key, value)
    /\ Returned("set_data", None, <<DataModified>>)
    /\ UNCHANGED <<inputs, outputs, input_desc, output_desc, map_index_in,
                   map_index_out, input_states, modified, func>>
    /\ UNCHANGED <<pc, reent, calls, evals, changed, touched, fresh>>
    /\ UNCHANGED fact_vars

\* Node.__call__ without a function: returns None
NoResult == [kind |-> "scalar", v |-> None, items |-> <<>>]

\* Outputs that go back to None when the call returned nothing
StoreOutputs_reset(outs, r) ==
    IF ~Truthy(r)
    THEN [i \in 1..Len(outs) |-> None]
    ELSE LET outlist == IF r.kind = "seq" THEN r.items ELSE <<r.v>>
             n == Min(Len(outlist), Len(outs))
         IN  [i \in 1..Len(outs) |-> IF i <= n THEN outlist[i] ELSE outs[i]]

\* Node.eval, lines 231-238: what the outputs become for the value the call
\* returned
StoreOutputs(outs, r) ==
    IF ~Truthy(r)
    THEN outs
    ELSE LET outlist == IF r.kind = "seq" THEN r.items ELSE <<r.v>>
             n == Min(Len(outlist), Len(outs))
         IN  [i \in 1..Len(outs) |-> IF i <= n THEN outlist[i] ELSE outs[i]]

\* eval that leaves the flag as it is
ClearModified_kept == modified' = modified

\* Node.eval, line 226
ClearModified == modified' = FALSE

\* Node.eval on a node that is not modified: lines 223-224
eval_lazy ==
    /\ pc = "idle"
    /\ ~modified
    /\ Returned("eval", "False", <<>>)
    /\ evals' = Min(evals + 1, 2)
    /\ reent' = 0
    /\ UNCHANGED node_vars
    /\ UNCHANGED <<pc, calls, changed, touched, fresh>>
    /\ UNCHANGED fact_vars

\* Node.eval on a modified node with no function bound: self.__call__ returns
\* None at once and the whole of eval runs.
eval_nofunc ==
    /\ pc = "idle"
    /\ modified
    /\ func = None
    /\ ClearModified
    /\ Returned("eval", "True", <<StatusModified(modified')>>)
    /\ outputs' = StoreOutputs(outputs, NoResult)
    /\ evals' = Min(evals + 1, 2)
    /\ changed' = FALSE
    /\ touched' = FALSE
    /\ reent' = 0
    /\ UNCHANGED <<inputs, input_desc, output_desc, map_index_in, map_index_out,
                   input_states, func, internal_data>>
    /\ UNCHANGED <<pc, calls, fresh>>
    /\ UNCHANGED fact_vars

\* Node.eval on a modified node, up to the call of the function: lines 223-228
eval_call ==
    /\ pc = "idle"
    /\ modified
    /\ func # None
    /\ ClearModified
    /\ pc' = "calling"
    /\ reent' = 0
    /\ Returned("eval", "running", <<>>)
    /\ calls' = Min(calls + 1, 2)
    /\ evals' = Min(evals + 1, 2)
    /\ touched' = FALSE
    /\ UNCHANGED <<inputs, outputs, input_desc, output_desc, map_index_in,
                   map_index_out, input_states, func, internal_data>>
    /\ UNCHANGED <<changed, fresh>>
    /\ UNCHANGED fact_vars

\* eval that clears the flag once the function has returned, not before the
\* call
eval_return_clears(r) ==
    /\ pc = "calling"
    /\ Len(r.items) <= Len(outputs) + 1
    /\ pc' = "idle"
    /\ ClearModified
    /\ Returned("eval", "True", Append(events, StatusModified(modified')))
    /\ outputs' = StoreOutputs(outputs, r)
    /\ changed' = touched
    /\ UNCHANGED <<inputs, input_desc, output_desc, map_index_in, map_index_out,
                   input_states, func, internal_data>>
    /\ UNCHANGED <<reent, calls, evals, touched, fresh>>
    /\ UNCHANGED fact_vars

\* Node.eval once the function has returned r: lines 229-240.  Results are
\* enumerated up to one element more than there are outputs: line 237 reads
\* no element beyond that.
eval_return(r) ==
    /\ pc = "calling"
    /\ Len(r.items) <= Len(outputs) + 1
    /\ pc' = "idle"
    /\ Returned("eval", "True", Append(events, StatusModified(modified)))
    /\ outputs' = StoreOutputs(outputs, r)
    /\ changed' = touched
    /\ UNCHANGED <<inputs, input_desc, output_desc, map_index_in, map_index_out,
                   input_states, modified, func, internal_data>>
    /\ UNCHANGED <<reent, calls, evals, touched, fresh>>
    /\ UNCHANGED fact_vars

\* eval that marks the node again when the function fails
eval_raise_redirty ==
    /\ pc = "calling"
    /\ pc' = "idle"
    /\ Returned("eval", "Exception", events)
    /\ modified' = TRUE
    /\ UNCHANGED <<inputs, outputs, input_desc, output_desc, map_index_in,
                   map_index_out, input_states, func, internal_data>>
    /\ UNCHANGED <<reent, calls, evals, changed, touched, fresh>>
    /\ UNCHANGED fact_vars

\* The function raises: eval has no handler, so the exception leaves eval at
\* line 228 and reaches the caller.
eval_raise ==
    /\ pc = "calling"
    /\ pc' = "idle"
    /\ Returned("eval", "Exception", events)
    /\ UNCHANGED node_vars
    /\ UNCHANGED <<reent, calls, evals, changed, touched, fresh>>
    /\ UNCHANGED fact_vars

NodeNext ==
    \/ \E name \in RawNames, interface \in Interfaces, value \in InputValues :
           add_input(name, interface, value)
    \/ \E name \in RawNames, interface \in Interfaces : add_output(name, interface)
    \/ \E k \in Keys, v \in InputValues : set_input(k, v)
    \/ \E k \in Keys : set_input_KeyError(k)
    \/ \E k \in Keys, v \in Values : set_output(k, v)
    \/ \E k \in Keys : set_output_KeyError(k)
    \/ \E k \in Keys, st \in States : set_input_state(k, st)
    \/ \E k \in Keys : set_input_state_KeyError(k)
    \/ eval_lazy
    \/ eval_nofunc
    \/ eval_call
    \/ \E r \in Results : eval_return(r)
    \/ eval_raise

\* ----------------------------------------------------------------- factory
\* The threads that call instantiate on the factory
Threads == {1, 2}

\* A port description, dict(name=..., interface=...)
PortSpec(name) == [name |-> name, interface |-> "IInt"]
\* The inputs / outputs a factory is created with
FactoryInputs == {<<>>, <<PortSpec("x")>>}
FactoryOutputs == {<<>>, <<PortSpec("y")>>}
\* get_parameters(classobj), of module signature: the port descriptions of the
\* parameters the object declares
Parameters == {<<PortSpec("a"), PortSpec("b")>>}
\* What can be found under nodeclass_name: a function, a class whose instances
\* are callable, a subclass of Node, or nothing.
ImplKinds == {"function", "functor", "nodeclass", "missing"}
\* The call_stack arguments: lists of factory ids
CallStacks == {<<>>, <<"A">>, <<"B">>}
Contains(list, x) == \E i \in 1..Len(list) : list[i] = x

NotReturned == [status |-> "none", inputs |-> <<>>, outputs |-> <<>>,
               caption |-> None, factory |-> None]

\* NodeFactory.__init__ (and AbstractFactory.__init__)
FactoryCreated(ins, outs, nodemodule, kind, parameters) ==
    /\ factory = [name |-> "A", description |-> "", category |-> "",
                  inputs |-> ins, outputs |-> outs,
                  nodemodule_name |-> nodemodule, nodeclass_name |-> "f",
                  nodemodule |-> None, nodemodule_path |-> None]
    /\ impl = [kind |-> kind, parameters |-> parameters]
    /\ created = factory
    /\ fpc = [t \in Threads |-> "idle"]
    /\ call_stack = [t \in Threads |-> <<>>]
    /\ depth = [t \in Threads |-> 0]
    /\ result = [t \in Threads |-> NotReturned]
    /\ finds = 0
    /\ loads = 0
    /\ resolved = FALSE
    /\ warm = [t \in Threads |-> FALSE]

FactoryInit ==
    \E ins \in FactoryInputs, outs \in FactoryOutputs, nm \in {"", "m"},
       k \in ImplKinds, ps \in Parameters : FactoryCreated(ins, outs, nm, k, ps)

\* AbstractFactory.get_id
get_id == factory.name

\* An exception leaves instantiate, through every nested call of the thread.
Raise(t, exc) ==
    /\ fpc' = [fpc EXCEPT ![t] = "idle"]
    /\ depth' = [depth EXCEPT ![t] = 0]
    /\ result' = [result EXCEPT ![t] = [NotReturned EXCEPT !.status = exc]]

\* NodeFactory.instantiate is called: line 408 is reached
instantiate(t, stack) ==
    /\ fpc[t] = "idle"
    /\ fpc' = [fpc EXCEPT ![t] = "get_node_module"]
    /\ call_stack' = [call_stack EXCEPT ![t] = stack]
    /\ depth' = [depth EXCEPT ![t] = 0]
    /\ result' = [result EXCEPT ![t] = NotReturned]
    /\ warm' = [warm EXCEPT ![t] = resolved]
    /\ UNCHANGED <<factory, impl, created, finds, loads, resolved>>
    /\ UNCHANGED <<node_vars, hist_vars>>

\* NodeFactory.get_node_module, lines 480-483 and 493-496: the cached module,
\* the module to load, or __builtin__
get_node_module(t) ==
    /\ fpc[t] = "get_node_module"
    /\ IF factory.nodemodule # None /\ factory.nodemodule_path # None
       THEN fpc' = [fpc EXCEPT ![t] = "lookup"]
       ELSE IF factory.nodemodule_name # ""
            THEN fpc' = [fpc EXCEPT ![t] = "find_module"]
            ELSE fpc' = [fpc EXCEPT ![t] = "lookup"]
    /\ UNCHANGED <<factory, impl, created, call_stack, depth, result, finds, loads,
                   resolved, warm>>
    /\ UNCHANGED <<node_vars, hist_vars>>

\* NodeFactory.get_node_module, lines 485-487: imp.find_module finds the
\* module or raises ImportError
find_module(t, found) ==
    /\ fpc[t] = "find_module"
    /\ finds < MaxFinds
    /\ finds' = finds + 1
    /\ IF found
       THEN /\ factory' = [factory EXCEPT !.nodemodule_path = "path"]
            /\ fpc' = [fpc EXCEPT ![t] = "load_module"]
            /\ UNCHANGED <<depth, result>>
       ELSE /\ Raise(t, "ImportError")
            /\ UNCHANGED factory
    /\ UNCHANGED <<impl, created, call_stack, loads, resolved, warm>>
    /\ UNCHANGED <<node_vars, hist_vars>>

\* load_module whose module is not kept on the factory
load_module_forget(t, loaded) ==
    /\ fpc[t] = "load_module"
    /\ loads' = loads + 1
    /\ IF loaded
       THEN /\ resolved' = TRUE
            /\ fpc' = [fpc EXCEPT ![t] = "lookup"]
            /\ UNCHANGED <<factory, depth, result>>
       ELSE /\ Raise(t, "ImportError")
            /\ UNCHANGED <<factory, resolved>>
    /\ UNCHANGED <<impl, created, call_stack, finds, warm>>
    /\ UNCHANGED <<node_vars, hist_vars>>

\* NodeFactory.get_node_module, lines 488-491: imp.load_module loads the
\* module, which is kept on the factory, or raises
load_module(t, loaded) ==
    /\ fpc[t] = "load_module"
    /\ loads' = loads + 1
    /\ IF loaded
       THEN /\ factory' = [factory EXCEPT !.nodemodule = "module"]
            /\ resolved' = TRUE
            /\ fpc' = [fpc EXCEPT ![t] = "lookup"]
            /\ UNCHANGED <<depth, result>>
       ELSE /\ Raise(t, "ImportError")
            /\ UNCHANGED <<factory, resolved>>
    /\ UNCHANGED <<impl, created, call_stack, finds, warm>>
    /\ UNCHANGED <<node_vars, hist_vars>>

\* NodeFactory.instantiate, line 409: the object named nodeclass_name, or
\* KeyError
lookup(t) ==
    /\ fpc[t] = "lookup"
    /\ IF impl.kind = "missing"
       THEN Raise(t, "KeyError")
       ELSE /\ fpc' = [fpc EXCEPT ![t] = "embed"]
            /\ UNCHANGED <<depth, result>>
    /\ UNCHANGED <<factory, impl, created, call_stack, finds, loads, resolved, warm>>
    /\ UNCHANGED <<node_vars, hist_vars>>

\* The embedding node left with the caption Node.__init__ gives it
EmbeddedNode_nocaption(f) ==
    [status |-> "node", inputs |-> f.inputs, outputs |-> f.outputs,
     caption |-> ClassName, factory |-> f.name]

\* The node of lines 424-425 and 429, or of lines 428-429
EmbeddedNode(f) ==
    [status |-> "node", inputs |-> f.inputs, outputs |-> f.outputs,
     caption |-> f.name, factory |-> f.name]
ClassNode(f) ==
    [status |-> "node", inputs |-> <<>>, outputs |-> <<>>,
     caption |-> "Node", factory |-> f.name]

\* The call of instantiate returns node: to the caller, or to the
\* constructor that made the call.
Return(t, node) ==
    IF depth[t] = 0
    THEN /\ fpc' = [fpc EXCEPT ![t] = "idle"]
         /\ result' = [result EXCEPT ![t] = node]
         /\ UNCHANGED depth
    ELSE /\ fpc' = [fpc EXCEPT ![t] = "construct"]
         /\ depth' = [depth EXCEPT ![t] = depth[t] - 1]
         /\ UNCHANGED result

\* NodeFactory.instantiate, lines 412-416: an object that is not a Node class
\* gets the factory's inputs and outputs, derived when there are none.
\* A function is embedded at once (lines 424-430); a class is constructed
\* first (line 422 or 428).
embed(t) ==
    /\ fpc[t] = "embed"
    /\ LET f == IF impl.kind = "nodeclass"
                THEN factory
                ELSE [factory EXCEPT
                         !.inputs = IF factory.inputs = <<>>
                                    THEN impl.parameters ELSE factory.inputs,
                         !.outputs = IF factory.outputs = <<>>
                                     THEN <<[name |-> "out", interface |-> None]>>
                                     ELSE factory.outputs]
       IN  /\ factory' = f
           /\ IF impl.kind = "function"
              THEN Return(t, EmbeddedNode(f))
              ELSE /\ fpc' = [fpc EXCEPT ![t] = "construct"]
                   /\ UNCHANGED <<depth, result>>
    /\ UNCHANGED <<impl, created, call_stack, finds, loads, resolved, warm>>
    /\ UNCHANGED <<node_vars, hist_vars>>

\* classobj() of line 422 or 428 calls instantiate on the same factory with
\* the call stack it was given.
reinstantiate(t) ==
    /\ fpc[t] = "construct"
    /\ depth[t] < MaxDepth
    /\ depth' = [depth EXCEPT ![t] = depth[t] + 1]
    /\ fpc' = [fpc EXCEPT ![t] = "get_node_module"]
    /\ UNCHANGED <<factory, impl, created, call_stack, result, finds, loads, resolved,
                   warm>>
    /\ UNCHANGED <<node_vars, hist_vars>>

\* classobj() returns: lines 424-430, or 428-430
construct(t) ==
    /\ fpc[t] = "construct"
    /\ Return(t, IF impl.kind = "nodeclass" THEN ClassNode(factory)
                 ELSE EmbeddedNode(factory))
    /\ UNCHANGED <<factory, impl, created, call_stack, finds, loads, resolved, warm>>
    /\ UNCHANGED <<node_vars, hist_vars>>

FactoryNext ==
    \/ \E t \in Threads, stack \in CallStacks : instantiate(t, stack)
    \/ \E t \in Threads : get_node_module(t)
    \/ \E t \in Threads, found \in BOOLEAN : find_module(t, found)
    \/ \E t \in Threads, loaded \in BOOLEAN : load_module(t, loaded)
    \/ \E t \in Threads : lookup(t)
    \/ \E t \in Threads : embed(t)
    \/ \E t \in Threads : reinstantiate(t)
    \/ \E t \in Threads : construct(t)

\* ---------------------------------------------------------- specifications
\* A node, beside a factory that is left as created
Init == NodeInit /\ FactoryCreated(<<>>, <<>>, "", "function", <<>>)
Next == NodeNext
Spec == Init /\ [][Next]_vars

\* The six port accessors called by the caller with any key, declared or not.
\* The function eval invokes returns or raises without calling back into the
\* node.
AccessNext ==
    \/ \E name \in RawNames, interface \in Interfaces, value \in InputValues :
           add_input(name, interface, value)
    \/ \E name \in RawNames, interface \in Interfaces : add_output(name, interface)
    \/ \E k \in Keys, v \in InputValues : pc = "idle" /\ set_input(k, v)
    \/ \E k \in Keys, v \in Values : set_output(k, v)
    \/ \E k \in Keys, st \in States : pc = "idle" /\ set_input_state(k, st)
    \/ \E k \in Keys : set_input_KeyError(k)
    \/ \E k \in Keys : set_output_KeyError(k)
    \/ \E k \in Keys : set_input_state_KeyError(k)
    \/ \E k \in Keys : get_input_KeyError(k)
    \/ \E k \in Keys : get_output_KeyError(k)
    \/ \E k \in Keys : get_input_state_KeyError(k)
    \/ eval_lazy
    \/ eval_nofunc
    \/ eval_call
    \/ \E r \in Results : eval_return(r)
    \/ eval_raise

AccessSpec == Init /\ [][AccessNext]_vars

\* The node with its caption and data: ports, values, states, set_caption,
\* set_data and eval, every call made by the caller with a declared key.  The
\* function eval invokes returns or raises without calling back into the node.
CallerNext ==
    \/ \E name \in RawNames, interface \in Interfaces, value \in InputValues :
           add_input(name, interface, value)
    \/ \E name \in RawNames, interface \in Interfaces : add_output(name, interface)
    \/ \E k \in Keys, v \in InputValues : pc = "idle" /\ set_input(k, v)
    \/ \E k \in Keys, v \in Values : set_output(k, v)
    \/ \E k \in Keys, st \in States : pc = "idle" /\ set_input_state(k, st)
    \/ \E newcaption \in Captions : set_caption(newcaption)
    \/ \E key \in DataKeys, value \in DataValues : set_data(key, value)
    \/ eval_lazy
    \/ eval_nofunc
    \/ eval_call
    \/ \E r \in Results : eval_return(r)
    \/ eval_raise

CallerSpec == Init /\ [][CallerNext]_vars

\* A factory of any description, beside a node that is left as created
FactorySpecInit == NodeInit /\ FactoryInit
FactorySpec == FactorySpecInit /\ [][FactoryNext]_vars

\* ------------------------------------------------------------------ claims
\* The names of the declared ports of a table, in declaration order
Names(desc) == [i \in 1..Len(desc) |-> desc[i][1]]
HasName(desc, nm) == \E i \in 1..Len(desc) : desc[i][1] = nm
\* The listeners have been sent a status_modified event
StatusSent == \E i \in 1..Len(events) : events[i].ev = "status_modified"
\* A step of the caller that is a call of eval
EvalCalled == pc = "idle" /\ op' = "eval"

\* C1: of two consecutive eval calls with no call of set_input or
\* set_input_state since the first one was entered, the function is invoked
\* at most once in all and the second call returns False.
C1_LazyIdempotence ==
    evals >= 2 => /\ pc = "idle"
                  /\ calls <= 1
                  /\ op = "eval" => ret = "False"
C1_Witness ==
    /\ evals = 2
    /\ calls = 1
    /\ op = "eval"
    /\ ret = "False"

\* C2: set_input(k, v) on a declared key with v different from the current
\* value leaves the node modified and sends exactly one input_modified event,
\* which carries the integer index of the port; with v equal to the current
\* value it sends no event and leaves modified as it was.
C2_SetInputDirty ==
    [][\A k \in DOMAIN map_index_in, v \in InputValues :
          ((op' = "set_input" \/ Nested) /\ set_input(k, v)) =>
              IF get_input(k) # v
              THEN /\ modified'
                   /\ Len(events') = Len(SentSoFar) + 1
                   /\ LET e == events'[Len(events')]
                      IN  /\ e.ev = "input_modified"
                          /\ e.index \in 0..(Len(inputs) - 1)
                          /\ IsInt(k) => e.index = k.int
                          /\ ~IsInt(k) => input_desc[e.index + 1][1] = k.str
                          /\ At(inputs', e.index) = v
              ELSE /\ events' = SentSoFar
                   /\ modified' = modified]_vars
C2_Witness ==
    /\ op = "set_input"
    /\ ret = None
    /\ modified
    /\ touched
    /\ evals = 0
    /\ events = <<InputModified(0)>>
    /\ At(inputs, 0) = "1"

\* C3 as stated: between calls, modified holds whenever an input value or
\* state has changed since the last eval that completed, and modified is
\* false right after every eval call that returns.
C3_DirtyInvariant_Original ==
    pc = "idle" => /\ changed => modified
                   /\ (op = "eval" /\ ret \in {"True", "False"}) => ~modified
\* C3 as amended: between calls, modified holds whenever an input value or
\* state has changed since eval last cleared the flag (since the function was
\* last called, whether that call returned or raised), and modified is false
\* right after every eval call that returns, also when the function returned
\* nothing, unless the function itself called set_input or set_input_state
\* on the node during that call.
C3_DirtyInvariant ==
    pc = "idle" => /\ touched => modified
                   /\ (op = "eval" /\ ret \in {"True", "False"} /\ reent = 0)
                          => ~modified
C3_Witness ==
    /\ pc = "idle"
    /\ op = "eval"
    /\ ret = "True"
    /\ calls = 1
    /\ reent = 0
    /\ ~modified
    /\ Len(inputs) > 0
    /\ At(inputs, 0) # None

\* C4: for every declared port of the input table and of the output table,
\* reading the port by its index and reading it by its name give the same
\* value.
C4_PortAliasing ==
    /\ \A i \in 0..(Len(inputs) - 1) :
           get_input(IntKey(i)) = get_input(StrKey(Names(input_desc)[i + 1]))
    /\ \A i \in 0..(Len(outputs) - 1) :
           get_output(IntKey(i)) = get_output(StrKey(Names(output_desc)[i + 1]))

\* C5: add_input / add_output with a name whose str() is already a name of
\* the same table fails with DuplicateNameError and appends no port.
C5_DuplicateNameRejected ==
    [][/\ \A name \in RawNames :
             (HasName(input_desc, Str(name))
                  /\ \E interface \in Interfaces, value \in InputValues :
                         add_input(name, interface, value))
                 => (ret' = "DuplicateNameError" /\ input_desc' = input_desc)
       /\ \A name \in RawNames :
             (HasName(output_desc, Str(name))
                  /\ \E interface \in Interfaces : add_output(name, interface))
                 => (ret' = "DuplicateNameError" /\ output_desc' = output_desc)]_vars

\* C6: when eval has run the function on a node with n outputs: a returned
\* sequence of length m gives its first min(m, n) elements to outputs
\* 0..min(m, n)-1 and the other outputs keep their values; a returned single
\* value that is not a sequence, on a node with n = 1, is given to that
\* output, whatever the value.
C6_OutputsFromResult ==
    [][\A r \in Results :
          eval_return(r) =>
              LET n == Len(outputs)
                  m == Len(r.items)
              IN  /\ r.kind = "seq" =>
                         /\ Len(outputs') = n
                         /\ \A i \in 1..n :
                                outputs'[i] = IF i <= Min(m, n) THEN r.items[i]
                                              ELSE outputs[i]
                  /\ (r.kind = "scalar" /\ r.v # None /\ n = 1) =>
                         outputs' = <<r.v>>]_vars

\* C9: every eval call that invokes the function has sent a status_modified
\* event to the listeners when it ends, whether the function returned or
\* raised.
C9_StatusAlwaysSent ==
    (pc = "idle" /\ op = "eval" /\ ret \in {"True", "Exception"}) => StatusSent

\* C10: when the function raises during eval, the exception reaches the
\* caller (no handler, no second invocation), the outputs are what they were,
\* and, the function not having changed an input of the node itself, the
\* node is left not modified, so that the next eval call with no input change
\* in between returns False without invoking the function.
C10_RaiseLeavesClean ==
    [][/\ (pc = "calling" /\ pc' = "calling") => outputs' = outputs
       /\ (pc = "calling" /\ pc' = "idle" /\ ret' # "True") =>
              /\ ret' = "Exception"
              /\ calls' = calls
              /\ outputs' = outputs
              /\ reent = 0 => ~modified'
       /\ (op = "eval" /\ ret = "Exception" /\ reent = 0 /\ EvalCalled) =>
              /\ ret' = "False"
              /\ pc' = "idle"
              /\ calls' = calls
              /\ outputs' = outputs]_vars
C10_Witness ==
    /\ pc = "idle"
    /\ op = "eval"
    /\ ret = "Exception"
    /\ reent = 0
    /\ ~modified
    /\ Len(outputs) > 0
    /\ At(outputs, 0) = "1"

\* C7: an instantiate call whose call_stack holds the factory's own id fails
\* with RecursionError before any module resolution: it never gets to the
\* lookup of the module or beyond, never has a call nested in it, and what
\* it gives back is RecursionError.
C7_CycleGuard ==
    \A t \in Threads :
        Contains(call_stack[t], get_id) =>
            /\ fpc[t] \in {"idle", "get_node_module"}
            /\ depth[t] = 0
            /\ fpc[t] = "idle" => result[t].status = "RecursionError"

\* C8: once a load_module call of some instantiate call has succeeded, an
\* instantiate call entered later takes the module kept on the factory: it
\* never gets to imp.find_module or imp.load_module.
C8_CachedResolution ==
    \A t \in Threads : warm[t] => fpc[t] \notin {"find_module", "load_module"}
C8_Witness ==
    \E t \in Threads :
        /\ warm[t]
        /\ fpc[t] = "idle"
        /\ result[t].status = "node"
        /\ factory.nodemodule = "module"
        /\ finds = 1
        /\ loads = 1

\* C11: every call of set_input_state with a declared key, by the caller or by
\* the running function, marks the node modified and sends one input_modified
\* event carrying the index of the port, also when the state given is the one
\* the port already has and the node was not modified; an eval called right
\* after it does not return False: it invokes the function, when there is
\* one, and returns True when the function returns.
C11_SetInputStateDirties ==
    [][/\ \A k \in DOMAIN map_index_in, st \in States :
              ((op' = "set_input_state" \/ Nested) /\ set_input_state(k, st)) =>
                  /\ modified'
                  /\ events' = Append(SentSoFar, InputModified(map_index_in[k]))
       /\ (pc = "idle" /\ op' = "set_input_state" /\ ret' = None) =>
              /\ modified'
              /\ \E i \in 0..(Len(inputs) - 1) : events' = <<InputModified(i)>>
       /\ (pc = "idle" /\ op = "set_input_state" /\ ret = None /\ EvalCalled) =>
              /\ ret' # "False"
              /\ func # None => (pc' = "calling" /\ calls' = 1)
              /\ func = None => ret' = "True"
       /\ (pc = "calling" /\ pc' = "idle" /\ ret' # "Exception") =>
              ret' = "True"]_vars
\* The caller has given a port the state it had, on a node no input of which
\* has changed since eval last cleared the flag.
C11_Witness ==
    /\ pc = "idle"
    /\ op = "set_input_state"
    /\ ret = None
    /\ ~touched
    /\ At(input_states, 0) = None
    /\ modified
    /\ events = <<InputModified(0)>>

\* C12: when the module or the symbol of a factory cannot be found, what the
\* instantiate call gives back to its caller is an InstantiationError and no
\* node.
C12_ResolverFailure ==
    \A t \in Threads :
        (fpc[t] = "idle" /\ result[t].status \notin {"none", "node"}) =>
            result[t].status = "InstantiationError"

\* C13: whatever instantiate calls have been made, the name, description,
\* category, inputs and outputs of the factory are those it was created with.
C13_DescriptionKept ==
    /\ factory.name = created.name
    /\ factory.description = created.description
    /\ factory.category = created.category
    /\ factory.inputs = created.inputs
    /\ factory.outputs = created.outputs

\* C14: the node an instantiate call returns for an implementation that is
\* not a Node subclass has the inputs the factory was created with, in order,
\* or the parameters of the implementation when it was created with none; the
\* outputs the factory was created with, or the one output "out" when it was
\* created with none; the factory's name as caption; and the factory as its
\* factory.
C14_EmbeddedNodeShape ==
    \A t \in Threads :
        (fpc[t] = "idle" /\ result[t].status = "node" /\ impl.kind # "nodeclass") =>
            /\ result[t].inputs = IF created.inputs = <<>> THEN impl.parameters
                                  ELSE created.inputs
            /\ result[t].outputs = IF created.outputs = <<>>
                                   THEN <<[name |-> "out", interface |-> None]>>
                                   ELSE created.outputs
            /\ result[t].caption = created.name
            /\ result[t].factory = get_id
C14_Witness ==
    \E t \in Threads :
        /\ fpc[t] = "idle"
        /\ result[t].status = "node"
        /\ impl.kind = "functor"
        /\ created.inputs = <<>>
        /\ created.outputs = <<PortSpec("y")>>
        /\ Len(result[t].inputs) = 2
        /\ result[t].inputs[1].name = "a"
        /\ result[t].inputs[2].name = "b"
        /\ result[t].outputs = <<PortSpec("y")>>
        /\ result[t].caption = "A"

\* The accessors of the ports
Accessors == {"get_input", "set_input", "get_output", "set_output",
              "get_input_state", "set_input_state"}

\* C15: get_input, set_input, get_input_state and set_input_state called with
\* a key that is not in map_index_in, and get_output and set_output called
\* with a key that is not in map_index_out, fail with the error of the lookup
\* (KeyError): no such call succeeds, and the failing call sends no event and
\* leaves the values, the states, the declarations and modified as they were.
C15_UnknownKey ==
    [][/\ \A k \in Keys \ DOMAIN map_index_in :
              /\ \A v \in InputValues : ~set_input(k, v)
              /\ \A st \in States : ~set_input_state(k, st)
       /\ \A k \in Keys \ DOMAIN map_index_out :
              \A v \in Values : ~set_output(k, v)
       /\ (pc = "idle" /\ op' \in Accessors /\ ret' # None) =>
              /\ ret' = "KeyError"
              /\ events' = <<>>
              /\ modified' = modified
              /\ UNCHANGED <<inputs, outputs, input_states, input_desc,
                             output_desc, map_index_in, map_index_out>>]_vars
\* set_input_state has failed on a node that has an input and is not modified
C15_Witness ==
    /\ op = "set_input_state"
    /\ ret = "KeyError"
    /\ events = <<>>
    /\ Len(inputs) > 0
    /\ ~modified

\* A thread is in imp.find_module or imp.load_module
Resolving(t) == fpc[t] \in {"find_module", "load_module"}

\* C16: the first resolution of the module is a one-time initialization: two
\* threads are never both in imp.find_module / imp.load_module, and once a
\* load_module call has succeeded no thread is in them any more, so two
\* concurrent instantiate calls resolve the module once between them.
C16_OneTimeResolution ==
    /\ \A t1, t2 \in Threads : (Resolving(t1) /\ Resolving(t2)) => t1 = t2
    /\ resolved => \A t \in Threads : ~Resolving(t)

\* The listeners have been sent an input_modified event
InputSent == \E i \in 1..Len(events) : events[i].ev = "input_modified"

\* C17: when the function, while eval runs it, has given an input of the node
\* another value with set_input or has called set_input_state, the node is
\* modified when eval returns, the status_modified event of that eval carries
\* True, and the next eval called invokes the function again.
C17_ReentrantChange ==
    [][/\ (pc = "calling" /\ pc' = "idle" /\ ret' = "True"
           /\ (touched \/ InputSent)) =>
              /\ modified'
              /\ events' = Append(events, StatusModified(TRUE))
       /\ (pc = "idle" /\ op = "eval" /\ ret = "True" /\ reent > 0
           /\ (touched \/ InputSent) /\ EvalCalled) =>
              /\ ret' # "False"
              /\ pc' = "calling"
              /\ calls' = 1]_vars
C17_Witness ==
    /\ pc = "idle"
    /\ op = "eval"
    /\ ret = "True"
    /\ reent = 1
    /\ touched
    /\ modified
    /\ events = <<InputModified(0), StatusModified(TRUE)>>

\* A port table: as many values as descriptions, every index below that
\* number a key that maps to itself, and no key that maps anywhere else
TableOk(values, desc, map) ==
    /\ Len(values) = Len(desc)
    /\ \A i \in 0..(Len(desc) - 1) :
           IntKey(i) \in DOMAIN map /\ map[IntKey(i)] = i
    /\ \A k \in DOMAIN map :
           /\ map[k] \in 0..(Len(desc) - 1)
           /\ IsInt(k) => map[k] = k.int
PortsOk ==
    /\ TableOk(inputs, input_desc, map_index_in)
    /\ Len(input_states) = Len(inputs)
    /\ TableOk(outputs, output_desc, map_index_out)
\* The ports of desc are those of the next state, under the same indices
Kept(desc, next) ==
    /\ Len(next) >= Len(desc)
    /\ \A i \in 1..Len(desc) : next[i] = desc[i]

\* C18: whatever add_input and add_output calls have been made, each table
\* has as many values as port descriptions (and the inputs as many states),
\* every index below the size of a table is a key of it that maps to itself,
\* the port added k-th to a table is the one at index k - 1, and no step
\* removes a port or moves one to another index.
C18_IndexStability ==
    [][/\ PortsOk
       /\ Kept(input_desc, input_desc')
       /\ Kept(output_desc, output_desc')
       /\ Len(input_desc') # Len(input_desc) =>
              /\ op' = "add_input"
              /\ Len(input_desc') = Len(input_desc) + 1
              /\ IntKey(Len(input_desc)) \in DOMAIN map_index_in'
              /\ map_index_in'[IntKey(Len(input_desc))] = Len(input_desc)
       /\ Len(output_desc') # Len(output_desc) =>
              /\ op' = "add_output"
              /\ Len(output_desc') = Len(output_desc) + 1
              /\ IntKey(Len(output_desc)) \in DOMAIN map_index_out'
              /\ map_index_out'[IntKey(Len(output_desc))] = Len(output_desc)]_vars
C18_Witness ==
    /\ op = "add_input"
    /\ Len(inputs) = 2
    /\ Len(input_desc) = 2
    /\ Len(input_states) = 2
    /\ map_index_in[IntKey(1)] = 1
    /\ input_desc[1][1] # input_desc[2][1]

\* The empty tuple or list, as a result of the function
EmptyResult == [kind |-> "seq", v |-> None, items |-> <<>>]

\* C19: an eval call whose function does not call back into the node changes
\* nothing but modified and the values of the outputs: the input values, the
\* input states, the port declarations and lookups, the function, the caption
\* and the data are after it what they were before; and it changes no output
\* when the node was not modified or the function returned None or an empty
\* sequence (or when there is no function).
C19_EvalFrame ==
    [][/\ ((pc = "idle" /\ op' = "eval") \/ pc = "calling") =>
              /\ UNCHANGED <<inputs, input_states, input_desc, output_desc,
                             map_index_in, map_index_out, func, internal_data>>
              /\ Len(outputs') = Len(outputs)
       /\ EvalCalled => outputs' = outputs
       /\ (EvalCalled /\ ~modified) => (modified' = modified /\ ret' = "False")
       /\ \A r \in {NoResult, EmptyResult} :
              eval_return(r) => outputs' = outputs]_vars
\* eval has returned on a node that has an input with a value and a state, an
\* output with a value, another caption and some data
C19_Witness ==
    /\ pc = "idle"
    /\ op = "eval"
    /\ ret = "True"
    /\ ~modified
    /\ Len(inputs) = 1
    /\ At(inputs, 0) = "1"
    /\ At(input_states, 0) = "hidden"
    /\ Len(outputs) = 1
    /\ At(outputs, 0) = "1"
    /\ internal_data["caption"] = "c"
    /\ "k" \in DOMAIN internal_data

\* C20: a node on which no eval, set_input or set_input_state has been called
\* since it was constructed is modified, whatever ports it has been given and
\* whether it has a function or not; the first eval called on such a node does
\* not return False: it invokes the function, when there is one, and returns
\* True when the function returns; and set_caption, set_data and set_output
\* leave modified as it is.
C20_FreshNodeDirty ==
    [][/\ (fresh /\ evals = 0) => modified
       /\ (fresh' /\ evals' = 0) => modified'
       /\ (fresh /\ evals = 0 /\ EvalCalled) =>
              /\ ret' # "False"
              /\ func # None => (pc' = "calling" /\ calls' = 1)
              /\ func = None => ret' = "True"
       /\ (fresh /\ evals = 1 /\ pc = "calling" /\ pc' = "idle") =>
              ret' \in {"True", "Exception"}
       /\ (pc = "idle" /\ op' \in {"set_caption", "set_data", "set_output"}) =>
              modified' = modified
       /\ \A c \in Captions : set_caption(c) => modified' = modified
       /\ \A key \in DataKeys, value \in DataValues :
              set_data(key, value) => modified' = modified]_vars
\* The first eval of a node built with an input and a function, and given
\* only a caption, some data and an output value, has invoked the function
\* and returned True.
C20_Witness ==
    /\ fresh
    /\ evals = 1
    /\ calls = 1
    /\ pc = "idle"
    /\ op = "eval"
    /\ ret = "True"
    /\ func = "f"
    /\ Len(inputs) = 1
    /\ internal_data["caption"] = "c"
    /\ "k" \in DOMAIN internal_data

====
